---- MODULE Spec2Model ----
(***************************************************************************)
(* Model of the GameArena component (src/src/components/GameArena.tsx).    *)
(*                                                                         *)
(* The component is a React function component.  Its state is the four     *)
(* useState cells (gameState, currentPlayer, collectibles, timeLeft), the  *)
(* animation frame requested through gameLoopRef and the timeout of the    *)
(* countdown effect.  Both callbacks are closures over the values of the   *)
(* render that created them, so the pending frame and the pending timeout  *)
(* carry the values they captured.                                         *)
(*                                                                         *)
(* One action is one host event (a click on a start button, a mouse move,  *)
(* an animation frame, a timeout): the handler's state updates are         *)
(* batched, the component is rendered again and its effects are run        *)
(* (cleanup first) until no update is left, before the next event.         *)
(*                                                                         *)
(* Coordinates are integers.  Math.random() returns k / RandDenom for an   *)
(* integer draw k in 0 .. RandDenom-1; the draws used make every spawned   *)
(* coordinate an integer.                                                  *)
(***************************************************************************)
EXTENDS Integers, Sequences, FiniteSets, TLC

VARIABLES
    gameState,      \* 'waiting' | 'playing' | 'ended'
    currentPlayer,  \* [x, y, score, health]
    collectibles,   \* sequence of [id, x, y, type, value]
    timeLeft,       \* seconds left in the round
    frame,          \* pending animation frame: <<>> or <<closure of gameLoop>>
    timer,          \* pending countdown timeout: <<>> or <<timeLeft captured>>
    now,            \* the next value Date.now() returns
    lastOp,         \* the event handled last
    pointer,        \* <<p>> when the last event is a mousemove at p, else <<>>
    events,         \* notifications sent to the parent by the last event
    collected,      \* sum of the values of the collectibles removed since the last start
    endCalls,       \* number of onGameEnd calls since the last start
    surface,        \* whether canvas.getContext('2d') returns a context
    twin,           \* the collectibles of a second run of the same events and the
                    \* same Math.random() draws, whose clock is ClockSkew ahead
    currentScore,   \* Index: the live score shown around the arena
    playerCharacter,    \* Index: <<>> (null) or <<the active character>>
    playerCollection,   \* Index: sequence of characters
    totalEarnings,      \* Index: total earnings, in units of 1 / EarningsScale
    transactionModal,   \* Index: [isOpen, transaction], transaction <<>> or <<t>>
    confirmations,      \* pending confirmation timeouts of showTransaction, oldest
                        \* first, each with the transaction it captured
    bridgeModal,        \* Index: [isOpen, character], character <<>> or <<c>>
    selectedGame,       \* BridgeModal: <<>> (null) or <<game id>>
    indexOp,            \* the Index / BridgeModal handler that ran last, with its input
    lastShown,          \* <<>> or <<id of the transaction handed to the modal last>>
    leaderboard,        \* Leaderboard: sequence of entries
    timeframe,          \* Leaderboard: 'daily' | 'weekly' | 'alltime'
    boardPlayer,        \* Leaderboard: the currentPlayer prop, <<>> or <<[nftId, score]>>
    generatedFor        \* the currentPlayer prop generateLeaderboard ran with last

arenaVars == <<gameState, currentPlayer, collectibles, timeLeft, frame, timer,
               lastOp, pointer, events, collected, endCalls, surface, twin,
               currentScore>>

indexVars == <<playerCharacter, playerCollection, totalEarnings, transactionModal,
               confirmations, bridgeModal, selectedGame, indexOp, lastShown>>

boardVars == <<leaderboard, timeframe, boardPlayer, generatedFor>>

vars == <<arenaVars, now, indexVars, boardVars>>

----------------------------------------------------------------------------
(* Program constants *)

CanvasWidth == 600
CanvasHeight == 400
PlayerRadius == 15
PickupRadius == 20
RoundSeconds == 60
SpawnCount == 10
MinCollectibles == 5
CoinValue == 10
PowerupValue == 50
SpawnMargin == 25
SpawnSpanX == 550
SpawnSpanY == 350
InitialX == 300
InitialY == 200
InitialHealth == 100

(* The size of a canvas element whose width and height were never set *)
DefaultCanvasWidth == 300
DefaultCanvasHeight == 150

(* Math.random() > 0.7, with the draw k standing for k / RandDenom *)
RandDenom == 3850
BonusNum == 7
BonusDen == 10

(* Bounds of the model *)
ClockStart == 1000      \* first value of Date.now()
MaxSpawns == 2          \* replacement collectibles spawned in one behaviour
ClockSkew == 1          \* how far the clock of the second run is ahead

----------------------------------------------------------------------------
(* Pure helpers *)

Min(a, b) == IF a < b THEN a ELSE b
Max(a, b) == IF a > b THEN a ELSE b

RECURSIVE SumValues(_)
SumValues(s) == IF s = <<>> THEN 0 ELSE Head(s).value + SumValues(Tail(s))

\* Math.max(15, Math.min(v, limit - 15))
ClampNoFloor(v, limit) == Min(v, limit - PlayerRadius)
Clamp(v, limit) == Max(PlayerRadius, Min(v, limit - PlayerRadius))

\* Math.pow(px - cx, 2) + Math.pow(py - cy, 2): the square of the distance
Distance2(p, c) == (p.x - c.x) * (p.x - c.x) + (p.y - c.y) * (p.y - c.y)

\* Math.sqrt(...) < 20; on integers sqrt(d2) < 20 exactly when d2 < 20 * 20
NearLoose(p, c) == Distance2(p, c) <= PickupRadius * PickupRadius
Near(p, c) == Distance2(p, c) < PickupRadius * PickupRadius

\* Math.random() > 0.7
Bonus(k) == k * BonusDen > BonusNum * RandDenom

\* one collectible object literal; d holds the four Math.random() draws
NewCollectible(id, d) ==
    [id    |-> id,
     x     |-> (d.x * SpawnSpanX) \div RandDenom + SpawnMargin,
     y     |-> (d.y * SpawnSpanY) \div RandDenom + SpawnMargin,
     type  |-> IF Bonus(d.t) THEN "powerup" ELSE "coin",
     value |-> IF Bonus(d.v) THEN PowerupValue ELSE CoinValue]

\* spawnCollectibles: ids collectible-0 .. collectible-9
SpawnCollectibles(draws) ==
    [i \in 1..SpawnCount |-> NewCollectible(i - 1, draws[i])]

\* const newScore = currentPlayer.score + collectible.value
NewScoreReset(player, c) == c.value
NewScore(player, c) == player.score + c.value

----------------------------------------------------------------------------
(* Inputs *)

\* a draw of Math.random() above 0.7 (High) or not (Low)
ChoiceDraw(high) == IF high THEN RandDenom - 1 ELSE RandDenom - RandDenom

\* the four draws of Math.random() that place a collectible at (x, y), and
\* make its type 'powerup' (t) and its value 50 (v) or not
Draw(x, y, t, v) ==
    [x |-> ((x - SpawnMargin) * RandDenom) \div SpawnSpanX,
     y |-> ((y - SpawnMargin) * RandDenom) \div SpawnSpanY,
     t |-> ChoiceDraw(t), v |-> ChoiceDraw(v)]

Low == FALSE
High == TRUE

\* the forty draws of one spawnCollectibles call
SpawnLayouts ==
    { << Draw(100, 100, Low, Low),   Draw(120, 100, Low, High),
         Draw(112, 116, High, High), Draw(300, 200, Low, Low),
         Draw(310, 200, High, Low),  Draw(500, 100, Low, Low),
         Draw(510, 100, High, High), Draw(500, 300, Low, Low),
         Draw(400, 300, Low, Low),   Draw(200, 300, Low, Low) >>,
      << Draw(100, 100, Low, Low),   Draw(100, 100, Low, Low),
         Draw(100, 100, Low, High),  Draw(100, 100, High, High),
         Draw(100, 100, Low, Low),   Draw(100, 100, Low, Low),
         Draw(100, 100, Low, Low),   Draw(500, 300, Low, Low),
         Draw(400, 300, Low, Low),   Draw(200, 300, High, High) >> }

\* the draws of the replacement collectible of checkCollisions
ReplacementDraws == { Draw(100, 100, Low, Low), Draw(40, 40, High, High) }

\* e.clientX - rect.left, e.clientY - rect.top
PointerPositions ==
    { [x |-> -40, y |-> -7], [x |-> 700, y |-> 500], [x |-> 100, y |-> 100],
      [x |-> 101, y |-> 100], [x |-> 500, y |-> 100], [x |-> 585, y |-> -7] }

----------------------------------------------------------------------------
(* Notifications to the parent *)

ScoreUpdate(score) == [name |-> "onScoreUpdate", arg |-> score]
GameEnd(score) == [name |-> "onGameEnd", arg |-> score]

IsScoreUpdate(e) == e.name = "onScoreUpdate"
IsGameEnd(e) == e.name = "onGameEnd"

----------------------------------------------------------------------------
(* Effects *)

\* the values a gameLoop closure captures
Closure(gs, cp, cols) == [gameState |-> gs, currentPlayer |-> cp, collectibles |-> cols]

\* cancelAnimationFrame(gameLoopRef.current)
CancelFrameLeak(fr) == fr
CancelFrame(fr) == <<>>

\* clearTimeout(timer)
ClearTimeout(tm) == <<>>

\* Game loop effect, deps [gameState, currentPlayer, collectibles]: the frame
\* pending after a render with (gs, cp, cols), fr being pending before it
GameLoopEffect(gs, cp, cols, fr) ==
    IF <<gs, cp, cols>> = <<gameState, currentPlayer, collectibles>>
    THEN fr
    ELSE LET cleaned == IF gameState = "playing" THEN CancelFrame(fr) ELSE fr
         IN  IF gs = "playing" THEN <<Closure(gs, cp, cols)>> ELSE cleaned

\* the condition under which the timer effect arms a timeout
TimerArmedAlways(gs, tl) == gs = "playing"
TimerArmed(gs, tl) == gs = "playing" /\ tl > 0

\* the condition under which the timer effect calls endGame
TimerExpiredNever(gs, tl) == FALSE
TimerExpired(gs, tl) == tl = 0 /\ gs = "playing"

\* Timer effect, deps [gameState, timeLeft]: the timeout pending after a render
\* with (gs, tl), tm being pending before it
TimerEffect(gs, tl, tm) ==
    IF <<gs, tl>> = <<gameState, timeLeft>>
    THEN tm
    ELSE LET cleaned == IF TimerArmed(gameState, timeLeft) THEN ClearTimeout(tm) ELSE tm
         IN  IF TimerArmed(gs, tl) THEN <<tl>> ELSE cleaned

\* endGame: setGameState('ended')
EndGameStateWaiting == "waiting"
EndGameState == "ended"

\* endGame: onGameEnd(currentPlayer.score), with the player cp of the render
\* whose timer effect calls it
EndGameNotificationsNone(cp) == <<>>
EndGameNotifications(cp) == <<GameEnd(cp.score)>>

\* Render with the state (gs, cp, cols, tl) a handler left, run the effects,
\* and render again when the timer effect ends the round.  fr and tm are the
\* callbacks pending when the handler returns, ev what it sent to the parent,
\* ends the number of onGameEnd calls of the round so far.
Commit(gs, cp, cols, tl, fr, tm, ev, ends) ==
    LET fr1 == GameLoopEffect(gs, cp, cols, fr)
        tm1 == TimerEffect(gs, tl, tm)
        expired == <<gs, tl>> # <<gameState, timeLeft>> /\ ~TimerArmed(gs, tl)
                   /\ TimerExpired(gs, tl)
    IN  /\ currentPlayer' = cp
        /\ collectibles' = cols
        /\ timeLeft' = tl
        /\ IF expired
           THEN /\ gameState' = EndGameState
                /\ frame' = CancelFrame(fr1)
                /\ timer' = tm1
                /\ events' = ev \o EndGameNotifications(cp)
                /\ endCalls' = ends + 1
           ELSE /\ gameState' = gs
                /\ frame' = fr1
                /\ timer' = tm1
                /\ events' = ev
                /\ endCalls' = ends

----------------------------------------------------------------------------
(* checkCollisions *)

\* the collectibles the filter callback rejects, in order
Hits(player, cols) == SelectSeq(cols, LAMBDA c : Near(player, c))

\* newCollectibles: the collectibles the filter callback keeps
Kept(player, cols) == SelectSeq(cols, LAMBDA c : ~Near(player, c))

\* the newScore of each hit, in the order of the setCurrentPlayer and
\* onScoreUpdate calls
HitScores(player, cols) ==
    LET hits == Hits(player, cols)
    IN  [i \in 1..Len(hits) |-> NewScore(player, hits[i])]

\* the player after the setCurrentPlayer updaters ran on prev
ScoredPlayer(prev, scores) ==
    IF scores = <<>> THEN prev ELSE [prev EXCEPT !.score = scores[Len(scores)]]

\* newCollectibles.length !== collectibles.length && newCollectibles.length < 5
NeedsSpawnAlways(cols, kept) == Len(kept) # Len(cols)
NeedsSpawn(cols, kept) == Len(kept) # Len(cols) /\ Len(kept) < MinCollectibles

\* the collectibles after setCollectibles(newCollectibles) and the spawn updater
ReplenishedNoSpawn(cols, kept, id, d) == kept
Replenished(cols, kept, id, d) ==
    IF NeedsSpawn(cols, kept) THEN Append(kept, NewCollectible(id, d)) ELSE kept

----------------------------------------------------------------------------
(* Index (src/unnamed/part_003): characters.  A character keeps the fields
   the handlers read or write: id, name, rarity, level, power, defense, speed *)

LevelSpan == 10
StatSpan == 50
StatPerRarity == 10
StatStep == 5
StatCap == 100
MintReward == 50
EarningsScale == 10
ListingCount == 12

\* bounds of the Index behaviours
MaxOps == 4            \* handler runs that read the clock in one behaviour

\* Math.floor(Math.random() * n) for the draw k
FloorRandom(k, n) == (k * n) \div RandDenom

Rarities == <<"Common", "Rare", "Epic", "Legendary">>

Names == <<"CyberKnight", "NeonWarrior", "PlasmaHunter", "VoidWalker", "StarBreaker",
           "TechMage", "QuantumRider", "EtherGuard", "BlockLord", "CryptoSage">>

\* rarities.indexOf(rarity)
IndexOf(seq, v) == (CHOOSE i \in 1..Len(seq) : seq[i] = v) - 1

\* generateRandomNFT(id) at the time t with the draws d; id <<>> is no argument
GenerateRandomNFT(id, t, d) ==
    LET rarity == Rarities[FloorRandom(d.rarity, Len(Rarities)) + 1]
        rarityMultiplier == IndexOf(Rarities, rarity) + 1
    IN  [id      |-> IF id # <<>> THEN id ELSE <<"nft", t, d.id>>,
         name    |-> Names[FloorRandom(d.name, Len(Names)) + 1],
         rarity  |-> rarity,
         level   |-> FloorRandom(d.level, LevelSpan) + 1,
         power   |-> FloorRandom(d.power, StatSpan) + rarityMultiplier * StatPerRarity,
         defense |-> FloorRandom(d.defense, StatSpan) + rarityMultiplier * StatPerRarity,
         speed   |-> FloorRandom(d.speed, StatSpan) + rarityMultiplier * StatPerRarity]

\* the draws of one generateRandomNFT call, all of them k
NFTDraw(k) ==
    [id |-> k, rarity |-> k, name |-> k, level |-> k, power |-> k, defense |-> k,
     speed |-> k]

\* draws used for minted characters: the lowest stats generateRandomNFT gives
NFTDraws == { NFTDraw(ChoiceDraw(Low)) }

\* draws used for the starter: the highest stats generateRandomNFT gives
StarterDraws == { NFTDraw(ChoiceDraw(High)) }

StarterId == <<"starter-001">>

\* the starter character of the mount effect
StarterNFT(t, d) ==
    [GenerateRandomNFT(StarterId, t, d) EXCEPT !.name = "Arena Rookie",
                                               !.rarity = "Common"]

\* playerCollection.find(c => c.id === characterId): <<>> or <<the first match>>
Find(collection, characterId) ==
    LET found == SelectSeq(collection, LAMBDA c : c.id = characterId)
    IN  IF found = <<>> THEN <<>> ELSE <<found[1]>>

\* handleUpgradeNFT: the upgraded character
UpgradedCharacter(character) ==
    [character EXCEPT !.level = character.level + 1,
                      !.power = Min(StatCap, character.power + StatStep),
                      !.defense = Min(StatCap, character.defense + StatStep),
                      !.speed = Min(StatCap, character.speed + StatStep)]

\* prev.map(c => c.id === characterId ? upgradedCharacter : c)
MapUpgraded(prev, characterId, upgraded) ==
    [i \in 1..Len(prev) |-> IF prev[i].id = characterId THEN upgraded ELSE prev[i]]

\* the draws of listing i: its own id draw, low and high stats alternating
ListingDraw(i) ==
    [NFTDraw(ChoiceDraw(i % 2 = 0)) EXCEPT !.id = i]

\* NFTMarketplace.generateMarketplaceListings, run when the marketplace is
\* mounted at the time t
GenerateMarketplaceListings(t) ==
    [i \in 1..ListingCount |->
        [id |-> <<"listing", i - 1>>,
         character |-> GenerateRandomNFT(<<>>, t, ListingDraw(i))]]

\* the listings on offer, generated at ClockStart
Listings == GenerateMarketplaceListings(ClockStart)

\* the listings the behaviours purchase
PurchasedListings == {1}

----------------------------------------------------------------------------
(* Index: transactions.  A transaction keeps id, type, status, hash, details;
   the amounts, addresses, gas, block number and timestamp are only shown. *)

Details(verb, name, text, number) ==
    [verb |-> verb, name |-> name, text |-> text, number |-> number]

\* createTransaction(type, details) at the time t with the hash draw h
CreateTransaction(type, details, t, h) ==
    [id |-> <<"tx", t>>, type |-> type, status |-> "pending", hash |-> <<"0x", h>>,
     details |-> details]

\* createTransaction(..., {status: 'confirmed', hash: `0x${entryId}...`}) of
\* handleViewTransaction
MockTransaction(entryId, t) ==
    [id |-> <<"tx", t>>, type |-> "leaderboard", status |-> "confirmed",
     hash |-> <<"0x", "entry", entryId>>,
     details |-> Details("Leaderboard entry verification transaction", "", "", 0)]

\* draws of Math.random() for the hash
HashDraws == { ChoiceDraw(High) }

\* the transaction the confirmation timeout of showTransaction(t) displays
ConfirmedTransactionFailed(t) == [t EXCEPT !.status = "failed"]
ConfirmedTransaction(t) == [t EXCEPT !.status = "confirmed"]

\* the modal state both showTransaction and its timeout set
ShownModal(t) == [isOpen |-> TRUE, transaction |-> <<t>>]

\* onClose of the TransactionModal
ClosedModal == [isOpen |-> FALSE, transaction |-> <<>>]

\* showTransaction(t): shows t and arms its confirmation timeout
ShowTransaction(t) ==
    /\ transactionModal' = ShownModal(t)
    /\ confirmations' = Append(confirmations, t)
    /\ lastShown' = <<t.id>>

\* handleGameEnd: if (finalScore > 0)
GameEndRecordedAlways(finalScore) == TRUE
GameEndRecorded(finalScore) == finalScore > 0

\* the final scores handleGameEnd is called with
FinalScores == {0, PowerupValue}

----------------------------------------------------------------------------
(* BridgeModal (src/unnamed/part_000) *)

PartnerGames ==
    << [id |-> "endless-rpg",  name |-> "Endless Quest RPG",     isLive |-> TRUE],
       [id |-> "cyber-racers", name |-> "Cyber Racers: Endless", isLive |-> TRUE],
       [id |-> "magic-realms", name |-> "Magic Realms",          isLive |-> FALSE],
       [id |-> "guild-wars",   name |-> "Guild Wars: Endless",   isLive |-> TRUE] >>

\* the game with the id gameId
Game(gameId) == PartnerGames[CHOOSE i \in 1..Len(PartnerGames) : PartnerGames[i].id = gameId]

\* game card onClick: game.isLive && setSelectedGame(game.id)
GameSelectableAny(game) == TRUE
GameSelectable(game) == game.isLive

ClosedBridge == [isOpen |-> FALSE, character |-> <<>>]

----------------------------------------------------------------------------
(* Leaderboard (src/unnamed/part_001) *)

MockEntries ==
    << [id |-> "entry-1", nftId |-> <<"nft-legendary-001">>, score |-> 2850,
        rank |-> 1, verified |-> TRUE],
       [id |-> "entry-2", nftId |-> <<"nft-epic-045">>, score |-> 2420,
        rank |-> 2, verified |-> TRUE],
       [id |-> "entry-3", nftId |-> <<"nft-rare-123">>, score |-> 2180,
        rank |-> 3, verified |-> TRUE],
       [id |-> "entry-4", nftId |-> <<"nft-epic-078">>, score |-> 1950,
        rank |-> 4, verified |-> TRUE],
       [id |-> "entry-5", nftId |-> <<"nft-legendary-002">>, score |-> 1820,
        rank |-> 5, verified |-> TRUE] >>

\* the entry of the current player p, ranked among the mock entries
PlayerEntry(p) ==
    [id |-> "current-player", nftId |-> p.nftId, score |-> p.score,
     rank |-> Len(SelectSeq(MockEntries, LAMBDA e : e.score > p.score)) + 1,
     verified |-> FALSE]

\* one step of the stable sort by (a, b) => b.score - a.score: e goes behind
\* every entry of sorted whose score is not lower
RECURSIVE InsertByScore(_, _)
InsertByScore(e, sorted) ==
    IF sorted = <<>> THEN <<e>>
    ELSE IF Head(sorted).score >= e.score
         THEN <<Head(sorted)>> \o InsertByScore(e, Tail(sorted))
         ELSE <<e>> \o sorted

\* entries.sort((a, b) => b.score - a.score)
RECURSIVE SortByScore(_)
SortByScore(entries) ==
    IF entries = <<>> THEN <<>>
    ELSE InsertByScore(entries[Len(entries)], SortByScore(SubSeq(entries, 1, Len(entries) - 1)))

\* .map((entry, index) => ({ ...entry, rank: index + 1 }))
Ranked(entries) == [i \in 1..Len(entries) |-> [entries[i] EXCEPT !.rank = i]]

\* if (currentPlayer && currentPlayer.score > 0)
HasScore(cp) == cp # <<>> /\ cp[1].score > 0

\* generateLeaderboard with the currentPlayer prop cp: the entries it sets
GenerateLeaderboard(cp) ==
    IF HasScore(cp)
    THEN Ranked(SortByScore(Append(MockEntries, PlayerEntry(cp[1]))))
    ELSE MockEntries

Timeframes == {"daily", "weekly", "alltime"}

\* scores of the currentPlayer prop: none, and around every mock score
BoardScores ==
    {0} \cup { MockEntries[i].score + dx : i \in 1..Len(MockEntries),
                                            dx \in {-CoinValue, 0, CoinValue} }

\* values of the currentPlayer prop
BoardPlayers == {<<>>} \cup { <<[nftId |-> StarterId, score |-> s]>> : s \in BoardScores }

----------------------------------------------------------------------------
(* States of Index and of the Leaderboard after construction *)

\* Index after its mount effect, the starter generated with the draws d
IndexMounted(d) ==
    /\ playerCharacter = <<StarterNFT(ClockStart, d)>>
    /\ playerCollection = <<StarterNFT(ClockStart, d)>>
    /\ totalEarnings = 0
    /\ transactionModal = ClosedModal
    /\ confirmations = <<>>
    /\ bridgeModal = ClosedBridge
    /\ selectedGame = <<>>
    /\ indexOp = [name |-> "mount", arg |-> <<>>]
    /\ lastShown = <<>>

\* the Leaderboard after its mount effect, with the currentPlayer prop cp
BoardMounted(cp) ==
    /\ boardPlayer = cp
    /\ timeframe = "daily"
    /\ leaderboard = GenerateLeaderboard(cp)
    /\ generatedFor = cp

----------------------------------------------------------------------------
(* Initial state: the component is mounted, the mount effect has run *)

\* GameArena after its mount effect, which spawned with the draws given
ArenaMounted(draws) ==
    /\ gameState = "waiting"
    /\ currentPlayer = [x |-> InitialX, y |-> InitialY, score |-> 0,
                        health |-> InitialHealth]
    /\ collectibles = SpawnCollectibles(draws)
    /\ timeLeft = RoundSeconds
    /\ frame = <<>>
    /\ timer = <<>>
    /\ now = ClockStart
    /\ lastOp = "mount"
    /\ pointer = <<>>
    /\ events = <<>>
    /\ collected = 0
    /\ endCalls = 0
    /\ surface = TRUE
    /\ twin = collectibles
    /\ currentScore = 0

Init ==
    /\ \E draws \in SpawnLayouts : ArenaMounted(draws)
    /\ IndexMounted(NFTDraw(ChoiceDraw(Low)))
    /\ BoardMounted(<<>>)

\* Initial state where getContext('2d') returns null: the mount effect returns
\* before it sizes the canvas and before spawnCollectibles
InitNoSurface ==
    /\ gameState = "waiting"
    /\ currentPlayer = [x |-> InitialX, y |-> InitialY, score |-> 0,
                        health |-> InitialHealth]
    /\ collectibles = <<>>
    /\ timeLeft = RoundSeconds
    /\ frame = <<>>
    /\ timer = <<>>
    /\ now = ClockStart
    /\ lastOp = "mount"
    /\ pointer = <<>>
    /\ events = <<>>
    /\ collected = 0
    /\ endCalls = 0
    /\ surface = FALSE
    /\ twin = collectibles
    /\ currentScore = 0
    /\ IndexMounted(NFTDraw(ChoiceDraw(Low)))
    /\ BoardMounted(<<>>)

----------------------------------------------------------------------------
(* Events *)

\* canvas.width and canvas.height: set by the mount effect once it has a context
Width == IF surface THEN CanvasWidth ELSE DefaultCanvasWidth
Height == IF surface THEN CanvasHeight ELSE DefaultCanvasHeight

\* the values startGame sets
StartedPlayerKeepsScore(prev) == [prev EXCEPT !.health = InitialHealth]
StartedPlayer(prev) == [prev EXCEPT !.score = 0, !.health = InitialHealth]

\* a click on "Enter Arena" or "Play Again"; the buttons are rendered only in
\* 'waiting' and 'ended'
StartGame ==
    /\ gameState \in {"waiting", "ended"}
    /\ \E draws \in SpawnLayouts :
          Commit("playing", StartedPlayer(currentPlayer), SpawnCollectibles(draws),
                 RoundSeconds, frame, timer, <<>>, 0)
    /\ collected' = 0
    /\ lastOp' = "start"
    /\ pointer' = <<>>
    /\ twin' = collectibles'     \* spawnCollectibles: same draws, no clock read
    /\ UNCHANGED <<now, surface, currentScore, indexVars, boardVars>>

\* the position handleMouseMove sets for the pointer position p
MovedPlayerUnclamped(prev, p) == [prev EXCEPT !.x = p.x, !.y = p.y]
MovedPlayer(prev, p) ==
    [prev EXCEPT !.x = Clamp(p.x, Width), !.y = Clamp(p.y, Height)]

\* if (gameState !== 'playing') return
MoveIgnoredOnlyEnded(gs) == gs = "ended"
MoveIgnored(gs) == gs # "playing"

\* a mousemove event on the canvas
HandleMouseMove ==
    \E p \in PointerPositions :
        /\ IF MoveIgnored(gameState)
           THEN UNCHANGED <<gameState, currentPlayer, collectibles, timeLeft,
                            frame, timer, endCalls>>
                /\ events' = <<>>
           ELSE Commit(gameState, MovedPlayer(currentPlayer, p), collectibles,
                       timeLeft, frame, timer, <<>>, endCalls)
        /\ lastOp' = "move"
        /\ pointer' = <<p>>
        /\ UNCHANGED <<now, collected, surface, twin, currentScore, indexVars,
                       boardVars>>

\* Index.handleScoreUpdate, called once per onScoreUpdate(score) of a frame:
\* setCurrentScore(score), the last call deciding
HandleScoreUpdates(prev, scores) ==
    IF scores = <<>> THEN prev ELSE scores[Len(scores)]

\* checkCollisions of the second run: the same player (no handler reads the
\* clock into the player) and the same draws d, its own collectibles and clock
TwinCollisions(player, d) ==
    LET kept == Kept(player, twin)
    IN  IF Len(kept) # Len(twin)
        THEN Replenished(twin, kept, now + ClockSkew, d)
        ELSE twin

\* the frame gameLoop requests for itself (the same closure)
NextFrame(f) == IF f.gameState = "playing" THEN <<f>> ELSE <<>>

\* an animation frame: gameLoop of the closure f runs render (which draws, or
\* returns at once without a context, and changes no state either way), then
\* checkCollisions, and requests the next frame
GameLoop ==
    /\ frame # <<>>
    /\ LET f == frame[1]
           kept == Kept(f.currentPlayer, f.collectibles)
           scores == HitScores(f.currentPlayer, f.collectibles)
           spawn == NeedsSpawn(f.collectibles, kept)
       IN  /\ spawn => now < ClockStart + MaxSpawns
           /\ \E d \in IF spawn THEN ReplacementDraws ELSE {Draw(SpawnMargin, SpawnMargin, Low, Low)} :
                 /\ Commit(gameState, ScoredPlayer(currentPlayer, scores),
                        IF Len(kept) # Len(f.collectibles)
                        THEN Replenished(f.collectibles, kept, now, d)
                        ELSE collectibles,
                        timeLeft, NextFrame(f), timer,
                        [i \in 1..Len(scores) |-> ScoreUpdate(scores[i])], endCalls)
                 /\ twin' = TwinCollisions(f.currentPlayer, d)
           /\ currentScore' = HandleScoreUpdates(currentScore, scores)
           /\ now' = IF spawn THEN now + 1 ELSE now
           /\ collected' = collected + SumValues(Hits(f.currentPlayer, f.collectibles))
    /\ lastOp' = "frame"
    /\ pointer' = <<>>
    /\ UNCHANGED <<surface, indexVars, boardVars>>

\* the countdown timeout fires: setTimeLeft(timeLeft - 1) with the captured value
TimerFire ==
    /\ timer # <<>>
    /\ Commit(gameState, currentPlayer, collectibles, timer[1] - 1, frame, <<>>,
              <<>>, endCalls)
    /\ lastOp' = "timeout"
    /\ pointer' = <<>>
    /\ UNCHANGED <<now, collected, surface, twin, currentScore, indexVars, boardVars>>

Next == StartGame \/ HandleMouseMove \/ GameLoop \/ TimerFire

Spec == Init /\ [][Next]_vars

----------------------------------------------------------------------------
(* startGame called while the round is playing.  The component offers no
   button for it in 'playing'; the handler itself has no guard. *)

StartGameWhilePlaying ==
    /\ gameState = "playing"
    /\ \E draws \in SpawnLayouts :
          Commit("playing", StartedPlayer(currentPlayer), SpawnCollectibles(draws),
                 RoundSeconds, frame, timer, <<>>, 0)
    /\ collected' = 0
    /\ lastOp' = "restart"
    /\ pointer' = <<>>
    /\ twin' = collectibles'     \* spawnCollectibles: same draws, no clock read
    /\ UNCHANGED <<now, surface, currentScore, indexVars, boardVars>>

NextReentrant == Next \/ StartGameWhilePlaying

SpecReentrant == Init /\ [][NextReentrant]_vars

----------------------------------------------------------------------------
(* The component in a host whose canvas has no 2D context *)

SpecNoSurface == InitNoSurface /\ [][Next]_vars

----------------------------------------------------------------------------
(* Claims *)

Score == currentPlayer.score

\* C1: while the round is playing, the player's score is the sum of the values
\* of all collectibles removed since the most recent start, however many one
\* frame removes.
C1_ScoreIsSumOfConsumed == gameState = "playing" => Score = collected

\* C2: while the round is playing there are at least 5 collectibles.
C2_AtLeastFiveWhilePlaying == gameState = "playing" => Len(collectibles) >= 5

\* C3: after a mousemove at p handled while playing, the player's x is in
\* 15..585 and y in 15..385, and a coordinate of p already in that range is
\* taken over unchanged.
C3_MoveClampsToArena ==
    (lastOp = "move" /\ gameState = "playing") =>
        LET p == pointer[1]
        IN  /\ currentPlayer.x \in 15..585
            /\ currentPlayer.y \in 15..385
            /\ p.x \in 15..585 => currentPlayer.x = p.x
            /\ p.y \in 15..385 => currentPlayer.y = p.y

\* C3 witness: a move handled while playing at a pointer left of and above the
\* canvas has put the player at (15, 15).
C3_Witness ==
    /\ lastOp = "move" /\ gameState = "playing"
    /\ pointer[1].x < 0 /\ pointer[1].y < 0
    /\ currentPlayer.x = 15 /\ currentPlayer.y = 15

\* C4: a frame removes a collectible exactly when the distance between its
\* centre and the player's is less than 20 (squared: less than 400).
C4_RemovedIffCloserThan20 ==
    [][lastOp' = "frame" =>
          \A i \in 1..Len(collectibles) :
              (Distance2(currentPlayer, collectibles[i]) < 400)
              <=> ~(\E j \in 1..Len(collectibles') : collectibles'[j] = collectibles[i])
      ]_vars

\* C4 witness: a frame has removed a collectible and kept one at distance 20.
C4_Witness ==
    /\ lastOp = "frame" /\ events # <<>>
    /\ \E i \in 1..Len(collectibles) : Distance2(currentPlayer, collectibles[i]) = 400

\* C5: right after startGame the round is playing with 60 seconds left, score 0
\* and ten freshly spawned collectibles, the countdown is armed and no round end
\* was notified.
C5_StartResetsRound ==
    lastOp = "start" =>
        /\ gameState = "playing"
        /\ timeLeft = 60
        /\ Score = 0
        /\ Len(collectibles) = 10
        /\ \E draws \in SpawnLayouts : collectibles = SpawnCollectibles(draws)
        /\ timer = <<60>>
        /\ endCalls = 0
        /\ events = <<>>

\* C5 witness: a start after an earlier round (the player has left the initial
\* position, which only a round can do) that had scored; the start button is
\* offered again only once that round has ended.
C5_Witness ==
    /\ lastOp = "start"
    /\ currentPlayer.x # InitialX
    /\ now > ClockStart

\* C6: when the time left reaches 0 while playing, the round is ended and
\* onGameEnd is called exactly once for the round, with the player's score at
\* that instant, which holds the points of every pickup made in the round.
C6_EndNotifiesFinalScoreOnce ==
    /\ gameState = "playing" => (timeLeft > 0 /\ endCalls = 0)
    /\ gameState = "ended" => (timeLeft = 0 /\ endCalls = 1)
    /\ (lastOp = "timeout" /\ timeLeft = 0) =>
          (gameState = "ended" /\ events = <<GameEnd(Score)>> /\ Score = collected)
    /\ \A i \in 1..Len(events) : IsGameEnd(events[i]) => (lastOp = "timeout" /\ timeLeft = 0)

\* C7: the round starts 'waiting'; it becomes 'playing' only by startGame,
\* 'ended' only from 'playing' on the timeout that brings the time left to 0,
\* and never 'waiting' again.
C7_RoundStateMachine ==
    /\ gameState = "waiting"
    /\ [][gameState' # gameState =>
            \/ /\ gameState \in {"waiting", "ended"}
               /\ gameState' = "playing"
               /\ lastOp' = "start"
            \/ /\ gameState = "playing"
               /\ gameState' = "ended"
               /\ lastOp' = "timeout"
               /\ timeLeft' = 0
         ]_vars

\* C7 witness: a round ends with score 0 after a replacement was spawned, which
\* takes a pickup, so in an earlier round: waiting, playing, ended, playing, ended.
C7_Witness ==
    /\ gameState = "ended"
    /\ lastOp = "timeout"
    /\ Score = 0
    /\ now > ClockStart

\* C8: the score is a natural number, and no event other than a start lowers it.
C8_ScoreMonotonic ==
    /\ [](Score \in Nat)
    /\ [][lastOp' # "start" => currentPlayer'.score >= Score]_vars

\* C8 witness: a frame has raised a score that was already positive.
C8_Witness == lastOp = "frame" /\ events # <<>> /\ Score > 50

\* C9: the time left changes only by a timeout handled while playing with time
\* left, which lowers it by exactly 1, or by a start, which sets it to 60; no
\* timeout is pending unless the round is playing.
C9_CountdownOnlyWhilePlaying ==
    /\ [](gameState # "playing" => timer = <<>>)
    /\ [][timeLeft' # timeLeft =>
            \/ lastOp' = "start" /\ timeLeft' = 60
            \/ /\ lastOp' = "timeout"
               /\ gameState = "playing"
               /\ timeLeft > 0
               /\ timeLeft' = timeLeft - 1
         ]_vars

\* C9 witness: an event was handled after the round ended, the time left still 0.
C9_Witness == gameState = "ended" /\ lastOp = "move" /\ timeLeft = 0

\* C10: once the round is ended no frame is pending, and until the next start
\* no frame runs, the score and the collectibles stay as they are and no score
\* update is notified.
C10_NoFrameAfterEnd ==
    /\ [](gameState = "ended" => frame = <<>>)
    /\ [][(gameState = "ended" /\ lastOp' # "start") =>
            /\ lastOp' # "frame"
            /\ currentPlayer'.score = Score
            /\ collectibles' = collectibles
            /\ \A i \in 1..Len(events') : ~IsScoreUpdate(events'[i])
         ]_vars

\* C10 witness: the round ended while the player stood within pickup distance
\* of a collectible, and an event was handled after that.
C10_Witness ==
    /\ gameState = "ended"
    /\ lastOp = "move"
    /\ \E i \in 1..Len(collectibles) : Near(currentPlayer, collectibles[i])

\* C11: a mousemove handled while the round is not playing changes neither the
\* player, the collectibles, the time left nor the round state, leaves the
\* pending callbacks as they are and notifies nothing.
C11_MoveIgnoredUnlessPlaying ==
    [][(lastOp' = "move" /\ gameState # "playing") =>
          /\ UNCHANGED <<gameState, currentPlayer, collectibles, timeLeft, frame, timer>>
          /\ events' = <<>>
      ]_vars

\* C11 witness: a mousemove at (100, 100) was handled before the first start
\* and the player is still at the initial position.
C11_Witness ==
    /\ gameState = "waiting"
    /\ lastOp = "move"
    /\ pointer = <<[x |-> 100, y |-> 100]>>
    /\ currentPlayer.x = InitialX /\ currentPlayer.y = InitialY


\* C12: every timeout lowers the time left by exactly 1, a round is not ended
\* while time is left, and the timeout that brings the time left from 60 to 0
\* in a round without a pickup ends the round and calls onGameEnd exactly
\* once, with 0.
C12_IdleRoundEndsWithZero ==
    /\ [][lastOp' = "timeout" => timeLeft' = timeLeft - 1]_vars
    /\ [](lastOp = "start" => timeLeft = 60)
    /\ []((gameState = "ended" => timeLeft = 0) /\ (gameState = "playing" => timeLeft > 0))
    /\ []((lastOp = "timeout" /\ timeLeft = 0 /\ collected = 0) =>
            /\ gameState = "ended"
            /\ endCalls = 1
            /\ events = <<GameEnd(0)>>)

\* C12 witness: a round without a pickup has just ended on its last timeout.
C12_Witness ==
    /\ lastOp = "timeout"
    /\ timeLeft = 0
    /\ collected = 0
    /\ gameState = "ended"


\* the scenario of C13: a round was started, nothing was picked up yet, and a
\* mousemove has put the player on (100, 100), where a collectible of value 10
\* lies that is the only one within pickup distance
C13_Scenario ==
    /\ gameState = "playing"
    /\ lastOp = "move"
    /\ collected = 0 /\ Score = 0
    /\ currentPlayer.x = 100 /\ currentPlayer.y = 100
    /\ \E i \in 1..Len(collectibles) :
          /\ collectibles[i].x = 100 /\ collectibles[i].y = 100
          /\ collectibles[i].value = 10
          /\ \A j \in 1..Len(collectibles) :
                Distance2(currentPlayer, collectibles[j]) < 400 => j = i

\* the collectible at (100, 100) is gone after the step
C13_Removed ==
    \A j \in 1..Len(collectibles') :
        ~(collectibles'[j].x = 100 /\ collectibles'[j].y = 100)

\* the step has added a collectible with a new id
C13_Spawned ==
    \E j \in 1..Len(collectibles') :
        \A i \in 1..Len(collectibles) : collectibles'[j].id # collectibles[i].id

\* C13 as claimed: in the scenario the next frame makes the score 10, removes
\* the collectible and spawns a replacement.
C13_PickupSpawnsReplacement ==
    [][(C13_Scenario /\ lastOp' = "frame") =>
          (currentPlayer'.score = 10 /\ C13_Removed /\ C13_Spawned)]_vars

\* C13 amended: in the scenario the next frame makes the score 10 and removes
\* the collectible; nine collectibles remain, which is not fewer than 5, and no
\* replacement is spawned.
C13_PickupWithoutReplacement ==
    [][(C13_Scenario /\ lastOp' = "frame") =>
          /\ currentPlayer'.score = 10
          /\ C13_Removed
          /\ Len(collectibles') = 9
          /\ ~C13_Spawned
      ]_vars

\* C13 witness: the frame after the move onto (100, 100) has made the score 10
\* and left nine collectibles.
C13_Witness ==
    /\ lastOp = "frame"
    /\ currentPlayer.x = 100 /\ currentPlayer.y = 100
    /\ Score = 10 /\ collected = 10
    /\ Len(collectibles) = 9


\* C14: every collectible of kind 'coin' has value 10 and every collectible of
\* kind 'powerup' has value 50.
C14_ValueMatchesKind ==
    \A i \in 1..Len(collectibles) :
        /\ collectibles[i].type = "coin" => collectibles[i].value = 10
        /\ collectibles[i].type = "powerup" => collectibles[i].value = 50


\* C15: in every state, whatever the round state and however often the round
\* was restarted, the player is within 15..585 by 15..385.
C15_PlayerInsideArena ==
    /\ currentPlayer.x \in 15..585
    /\ currentPlayer.y \in 15..385

\* C15 witness: a round is started again with the player in the far corner,
\* where a pointer outside the canvas had put it in the round before.
C15_Witness ==
    /\ lastOp = "start"
    /\ currentPlayer.x = 585 /\ currentPlayer.y = 385


\* C16: startGame called while the round is playing leaves it playing, sets the
\* time left to 60 and the score to 0, spawns ten new collectibles, keeps the
\* countdown and the frame loop running and notifies no round end.
C16_RestartWhilePlaying ==
    [][(gameState = "playing" /\ lastOp' = "restart") =>
          /\ gameState' = "playing"
          /\ timeLeft' = 60
          /\ currentPlayer'.score = 0
          /\ \E draws \in SpawnLayouts : collectibles' = SpawnCollectibles(draws)
          /\ timer' = <<60>>
          /\ frame' = <<Closure("playing", currentPlayer', collectibles')>>
          /\ events' = <<>>
          /\ endCalls' = 0
      ]_vars

\* C16 witness: startGame has interrupted a round in which the player had moved
\* to (100, 100) and a replacement had been spawned.
C16_Witness ==
    /\ lastOp = "restart"
    /\ currentPlayer.x = 100
    /\ now > ClockStart


\* C17: without a drawing surface a frame throws nothing, leaves the player and
\* the collectibles as they are, notifies nothing and requests the next frame.
C17_FrameWithoutSurfaceIsNoOp ==
    [][(~surface /\ lastOp' = "frame") =>
          /\ currentPlayer' = currentPlayer
          /\ collectibles' = collectibles
          /\ events' = <<>>
          /\ frame' # <<>>
      ]_vars


\* C18: two runs fed the same events and the same random draws hold the same
\* collectibles (identity, position, kind and value), whatever their clocks read.
C18_SameCollectiblesWhateverTheClock == twin = collectibles


\* the collectibles of the state before the step that are still there after it
C19_Survivors ==
    SelectSeq(collectibles,
              LAMBDA c : \E j \in 1..Len(collectibles') : collectibles'[j] = c)

\* C19: a frame that removes at least one collectible and leaves fewer than 5
\* appends exactly one new collectible, with x in 25..575 and y in 25..375, to
\* the survivors; any other frame leaves exactly the survivors, in order.
C19_OneReplacementBelowFive ==
    [][lastOp' = "frame" =>
          LET survivors == C19_Survivors
              m == Len(collectibles')
          IN  IF Len(survivors) < Len(collectibles) /\ Len(survivors) < 5
              THEN /\ m = Len(survivors) + 1
                   /\ SubSeq(collectibles', 1, m - 1) = survivors
                   /\ collectibles'[m].x \in 25..575
                   /\ collectibles'[m].y \in 25..375
                   /\ \A i \in 1..Len(collectibles) :
                         collectibles'[m].id # collectibles[i].id
              ELSE collectibles' = survivors
      ]_vars

\* C19 witness: a frame has removed collectibles, left fewer than 5 and
\* appended a replacement.
C19_Witness ==
    /\ lastOp = "frame"
    /\ events # <<>>
    /\ Len(collectibles) < 5
    /\ collectibles[Len(collectibles)].id >= ClockStart


\* C20: once a round was started, the live score of Index equals the score of
\* the arena's player, also right after a restart.
C20_LiveScoreEqualsArenaScore == gameState # "waiting" => currentScore = Score


----------------------------------------------------------------------------
(* Index (src/unnamed/part_003) and BridgeModal (src/unnamed/part_000): one
   action is one handler run, or one confirmation timeout.  Every handler
   that creates a transaction reads the clock, which has moved on since the
   handler before it. *)

ClockOpen == now < ClockStart + MaxOps

\* the ids handleUpgradeNFT is called with: the first and the last character
\* owned, and an id that is not in the collection
UnknownId == <<"nft-unknown">>
UpgradeIds ==
    { playerCollection[1].id, playerCollection[Len(playerCollection)].id, UnknownId }

\* the ids handleTradeNFT is called with
TradeIds == { playerCollection[1].id, UnknownId }

\* handleMintNFT
HandleMintNFT ==
    /\ ClockOpen
    /\ \E d \in NFTDraws, h \in HashDraws :
          LET newNFT == GenerateRandomNFT(<<>>, now, d)
          IN  /\ ShowTransaction(CreateTransaction("mint",
                    Details("Minted", newNFT.name, newNFT.rarity, 0), now, h))
              /\ playerCollection' = Append(playerCollection, newNFT)
              /\ indexOp' = [name |-> "mint", arg |-> newNFT.id]
    /\ totalEarnings' = totalEarnings + MintReward * EarningsScale
    /\ now' = now + 1
    /\ UNCHANGED <<playerCharacter, bridgeModal, selectedGame, arenaVars, boardVars>>

\* handleUpgradeNFT(characterId)
HandleUpgradeNFT ==
    \E characterId \in UpgradeIds, h \in HashDraws :
        LET character == Find(playerCollection, characterId)
        IN  /\ indexOp' = [name |-> "upgrade", arg |-> characterId]
            /\ IF character = <<>>
               THEN UNCHANGED <<playerCharacter, playerCollection, transactionModal,
                                confirmations, lastShown, now>>
               ELSE LET upgraded == UpgradedCharacter(character[1])
                    IN  /\ ClockOpen
                        /\ ShowTransaction(CreateTransaction("upgrade",
                              Details("Upgraded", character[1].name, "", upgraded.level),
                              now, h))
                        /\ playerCollection' =
                              MapUpgraded(playerCollection, characterId, upgraded)
                        /\ playerCharacter' =
                              IF playerCharacter # <<>> /\ playerCharacter[1].id = characterId
                              THEN <<upgraded>>
                              ELSE playerCharacter
                        /\ now' = now + 1
            /\ UNCHANGED <<totalEarnings, bridgeModal, selectedGame, arenaVars, boardVars>>

\* handleTradeNFT(characterId)
HandleTradeNFT ==
    \E characterId \in TradeIds, h \in HashDraws :
        LET character == Find(playerCollection, characterId)
        IN  /\ indexOp' = [name |-> "trade", arg |-> characterId]
            /\ IF character = <<>>
               THEN UNCHANGED <<transactionModal, confirmations, lastShown, now>>
               ELSE /\ ClockOpen
                    /\ ShowTransaction(CreateTransaction("trade",
                          Details("Listed", character[1].name, "", 0), now, h))
                    /\ now' = now + 1
            /\ UNCHANGED <<playerCharacter, playerCollection, totalEarnings, bridgeModal,
                           selectedGame, arenaVars, boardVars>>

\* onPurchase(listing) of the NFTMarketplace, for a listing on offer
OnPurchase ==
    /\ ClockOpen
    /\ \E i \in PurchasedListings, h \in HashDraws :
          LET listing == Listings[i]
          IN  /\ ShowTransaction(CreateTransaction("trade",
                    Details("Purchased", listing.character.name, "", 0), now, h))
              /\ playerCollection' = Append(playerCollection, listing.character)
              /\ indexOp' = [name |-> "purchase", arg |-> listing.id]
    /\ now' = now + 1
    /\ UNCHANGED <<playerCharacter, totalEarnings, bridgeModal, selectedGame,
                   arenaVars, boardVars>>

\* handleGameEnd(finalScore); finalScore * 0.1 is finalScore units of
\* 1 / EarningsScale
HandleGameEnd ==
    \E finalScore \in FinalScores, h \in HashDraws :
        /\ indexOp' = [name |-> "gameEnd", arg |-> finalScore]
        /\ IF GameEndRecorded(finalScore)
           THEN /\ ClockOpen
                /\ ShowTransaction(CreateTransaction("leaderboard",
                      Details("Recorded high score", "", "", finalScore), now, h))
                /\ totalEarnings' = totalEarnings + finalScore
                /\ now' = now + 1
           ELSE UNCHANGED <<transactionModal, confirmations, lastShown, totalEarnings,
                            now>>
        /\ UNCHANGED <<playerCharacter, playerCollection, bridgeModal, selectedGame,
                       arenaVars, boardVars>>

\* handleViewTransaction(entryId), from an entry of the leaderboard
HandleViewTransaction ==
    /\ ClockOpen
    /\ \E entryId \in {MockEntries[1].id} :
          /\ transactionModal' = ShownModal(MockTransaction(entryId, now))
          /\ lastShown' = <<MockTransaction(entryId, now).id>>
          /\ indexOp' = [name |-> "view", arg |-> entryId]
    /\ now' = now + 1
    /\ UNCHANGED <<playerCharacter, playerCollection, totalEarnings, confirmations,
                   bridgeModal, selectedGame, arenaVars, boardVars>>

\* onClose of the TransactionModal: the Close / Done button or the dialog
CloseTransaction ==
    /\ transactionModal.isOpen
    /\ transactionModal' = ClosedModal
    /\ indexOp' = [name |-> "close", arg |-> <<>>]
    /\ UNCHANGED <<playerCharacter, playerCollection, totalEarnings, confirmations,
                   bridgeModal, selectedGame, lastShown, now, arenaVars, boardVars>>

\* the oldest confirmation timeout of showTransaction fires (all have the
\* same delay)
ConfirmTransaction ==
    /\ confirmations # <<>>
    /\ transactionModal' = ShownModal(ConfirmedTransaction(Head(confirmations)))
    /\ confirmations' = Tail(confirmations)
    /\ indexOp' = [name |-> "confirm", arg |-> Head(confirmations).id]
    /\ UNCHANGED <<playerCharacter, playerCollection, totalEarnings, bridgeModal,
                   selectedGame, lastShown, now, arenaVars, boardVars>>

\* the "Bridge to Other Games" button, disabled without a player character
OpenBridge ==
    /\ playerCharacter # <<>>
    /\ bridgeModal' = [isOpen |-> TRUE, character |-> playerCharacter]
    /\ indexOp' = [name |-> "openBridge", arg |-> <<>>]
    /\ UNCHANGED <<playerCharacter, playerCollection, totalEarnings, transactionModal,
                   confirmations, selectedGame, lastShown, now, arenaVars, boardVars>>

\* the BridgeModal shows its cards and buttons
BridgeShown == bridgeModal.isOpen /\ bridgeModal.character # <<>>

\* a click on a game card
SelectGame ==
    /\ BridgeShown
    /\ \E i \in 1..Len(PartnerGames) :
          /\ selectedGame' = IF GameSelectable(PartnerGames[i])
                             THEN <<PartnerGames[i].id>>
                             ELSE selectedGame
          /\ indexOp' = [name |-> "select", arg |-> PartnerGames[i].id]
    /\ UNCHANGED <<playerCharacter, playerCollection, totalEarnings, transactionModal,
                   confirmations, bridgeModal, lastShown, now, arenaVars, boardVars>>

\* handleBridge of the "Bridge NFT" button (disabled without a selected game):
\* onBridge, which is handleBridgeNFT of Index, then onClose
HandleBridge ==
    /\ BridgeShown
    /\ selectedGame # <<>>
    /\ ClockOpen
    /\ LET character == Find(playerCollection, bridgeModal.character[1].id)
       IN  IF character = <<>>
           THEN UNCHANGED <<transactionModal, confirmations, lastShown, now>>
           ELSE /\ \E h \in HashDraws :
                     ShowTransaction(CreateTransaction("bridge",
                        Details("Bridged", character[1].name, Game(selectedGame[1]).name, 0),
                        now, h))
                /\ now' = now + 1
    /\ bridgeModal' = ClosedBridge
    /\ indexOp' = [name |-> "bridge",
                   arg |-> [game |-> selectedGame, character |-> bridgeModal.character]]
    /\ UNCHANGED <<playerCharacter, playerCollection, totalEarnings, selectedGame,
                   arenaVars, boardVars>>

\* onClose of the BridgeModal: the Cancel button or the dialog
CloseBridge ==
    /\ bridgeModal.isOpen
    /\ bridgeModal' = ClosedBridge
    /\ indexOp' = [name |-> "closeBridge", arg |-> <<>>]
    /\ UNCHANGED <<playerCharacter, playerCollection, totalEarnings, transactionModal,
                   confirmations, selectedGame, lastShown, now, arenaVars, boardVars>>

InitIndex ==
    /\ ArenaMounted(CHOOSE draws \in SpawnLayouts : TRUE)
    /\ \E d \in StarterDraws : IndexMounted(d)
    /\ BoardMounted(<<>>)

\* the handlers of Index and the confirmation timeout
NextIndex ==
    \/ HandleMintNFT \/ HandleUpgradeNFT \/ HandleTradeNFT \/ OnPurchase
    \/ HandleGameEnd \/ HandleViewTransaction \/ CloseTransaction
    \/ ConfirmTransaction

SpecIndex == InitIndex /\ [][NextIndex]_vars

\* the BridgeModal, with the transaction modal its bridging opens
NextBridge ==
    \/ OpenBridge \/ SelectGame \/ HandleBridge \/ CloseBridge
    \/ CloseTransaction \/ ConfirmTransaction

SpecBridge == InitIndex /\ [][NextBridge]_vars


----------------------------------------------------------------------------
(* Claims about Index *)

\* the transaction the modal holds; only read where it holds one
Shown == transactionModal.transaction[1]

\* the handlers that hand a transaction to the modal
ShowingOps == {"mint", "upgrade", "trade", "purchase", "gameEnd", "bridge", "view"}

\* C21: a closed transaction modal is opened only by a handler that shows a
\* transaction (showTransaction or handleViewTransaction), never by a
\* confirmation timeout left over from an earlier showTransaction.
C21_ClosedStaysClosed ==
    [][(~transactionModal.isOpen /\ transactionModal'.isOpen)
          => indexOp'.name \in ShowingOps]_vars

\* C22: an open transaction modal displays the transaction that was handed
\* to it last.
C22_ModalShowsLastShown ==
    transactionModal.isOpen =>
        /\ transactionModal.transaction # <<>>
        /\ lastShown = <<Shown.id>>


\* t and u are the same transaction but for the status
SameTransaction(t, u) ==
    /\ t.id = u.id
    /\ t.hash = u.hash
    /\ t.type = u.type
    /\ t.details = u.details

\* the "Retry Transaction" button of the TransactionModal is rendered
RetryRendered == transactionModal.transaction # <<>> /\ Shown.status = "failed"

\* showTransaction has run in the step: it armed a confirmation timeout
ShowTransactionRan == Len(confirmations') > Len(confirmations)

\* a confirmation timeout has fired in the step
ConfirmationFired == Len(confirmations') < Len(confirmations)

\* C23, in every state: no transaction of the modal or of a pending
\* confirmation has the status 'failed' (so the retry button is never
\* rendered), and the transactions waiting for their confirmation are pending.
C23_NoFailedStatus ==
    /\ ~RetryRendered
    /\ transactionModal.transaction # <<>> => Shown.status \in {"pending", "confirmed"}
    /\ \A i \in 1..Len(confirmations) : confirmations[i].status = "pending"

\* C23, in every step: showTransaction displays its transaction with the
\* status 'pending'; its confirmation timeout displays the same id, hash,
\* type and details with the status 'confirmed'; and a transaction that stays
\* in the modal never goes back from 'confirmed'.
C23_StatusStep ==
    /\ ShowTransactionRan =>
          /\ transactionModal' = ShownModal(confirmations'[Len(confirmations')])
          /\ transactionModal'.transaction[1].status = "pending"
    /\ ConfirmationFired =>
          /\ transactionModal'.isOpen
          /\ SameTransaction(transactionModal'.transaction[1], Head(confirmations))
          /\ transactionModal'.transaction[1].status = "confirmed"
    /\ (/\ transactionModal.transaction # <<>>
        /\ transactionModal'.transaction # <<>>
        /\ transactionModal'.transaction[1].id = Shown.id
        /\ Shown.status = "confirmed")
          => transactionModal'.transaction[1].status = "confirmed"

\* C23: every transaction given to showTransaction is first displayed as
\* 'pending', its confirmation later displays the same transaction as
\* 'confirmed', a status only moves from pending to confirmed, and no
\* transaction is ever 'failed'.
C23_PendingThenConfirmed == []C23_NoFailedStatus /\ [][C23_StatusStep]_vars

\* a confirmation has displayed its transaction while a later one still waits
C23_Witness ==
    /\ indexOp.name = "confirm"
    /\ transactionModal.isOpen
    /\ Shown.status = "confirmed"
    /\ Shown.id = indexOp.arg
    /\ confirmations # <<>>

\* C24, in every step: handleGameEnd shows a 'leaderboard' transaction and
\* raises the total earnings if the final score is above 0, and otherwise
\* leaves the transaction modal and the total earnings as they are; no step
\* lowers the total earnings.
C24_GameEndStep ==
    /\ totalEarnings' >= totalEarnings
    /\ indexOp'.name = "gameEnd" /\ <<indexOp, now>>' # <<indexOp, now>> =>
          IF indexOp'.arg > 0
          THEN /\ ShowTransactionRan
               /\ transactionModal'.isOpen
               /\ transactionModal'.transaction[1].type = "leaderboard"
               /\ transactionModal'.transaction[1].details.number = indexOp'.arg
               /\ totalEarnings' > totalEarnings
          ELSE UNCHANGED <<transactionModal, confirmations, totalEarnings>>

\* C24: a round-end notification shows a 'leaderboard' transaction and
\* increases the total earnings exactly when the final score is above 0, and
\* the total earnings never decrease.
C24_GameEndRecordsPositiveScore == [][C24_GameEndStep]_vars

\* a round end with a positive score was recorded after a mint
C24_Witness ==
    /\ indexOp.name = "gameEnd"
    /\ indexOp.arg = PowerupValue
    /\ transactionModal.isOpen
    /\ Shown.type = "leaderboard"
    /\ totalEarnings = MintReward * EarningsScale + PowerupValue


\* C25: the characters of the player's collection have pairwise distinct ids.
C25_DistinctIds ==
    \A i, j \in 1..Len(playerCollection) :
        i # j => playerCollection[i].id # playerCollection[j].id

\* the stats of the character c are between the lowest generated stat and the cap
StatsInRange(c) ==
    /\ c.power \in StatPerRarity..StatCap
    /\ c.defense \in StatPerRarity..StatCap
    /\ c.speed \in StatPerRarity..StatCap

\* the character u is the character c one level up, each stat 5 higher but
\* not above 100
OneLevelUp(c, u) ==
    /\ u.level = c.level + 1
    /\ u.power = Min(StatCap, c.power + StatStep)
    /\ u.defense = Min(StatCap, c.defense + StatStep)
    /\ u.speed = Min(StatCap, c.speed + StatStep)
    /\ u.id = c.id /\ u.name = c.name /\ u.rarity = c.rarity

\* C26, in every step: handleUpgradeNFT on an id of the collection moves
\* every character of that id one level up and leaves the others alone; on an
\* id that is not in the collection it changes nothing and shows nothing.
C26_UpgradeStep ==
    indexOp'.name = "upgrade" /\ <<indexOp, now>>' # <<indexOp, now>> =>
        IF \A i \in 1..Len(playerCollection) : playerCollection[i].id # indexOp'.arg
        THEN UNCHANGED <<playerCollection, playerCharacter, totalEarnings,
                         transactionModal, confirmations>>
        ELSE /\ Len(playerCollection') = Len(playerCollection)
             /\ \A i \in 1..Len(playerCollection) :
                   IF playerCollection[i].id = indexOp'.arg
                   THEN OneLevelUp(playerCollection[i], playerCollection'[i])
                   ELSE playerCollection'[i] = playerCollection[i]

\* C26: every character of the collection has power, defense and speed
\* between 10 and 100, and handleUpgradeNFT raises the level of an owned
\* character by exactly 1 and each stat by 5 capped at 100, and does nothing
\* for an id that is not owned.
C26_UpgradeByOneLevel ==
    [](\A i \in 1..Len(playerCollection) : StatsInRange(playerCollection[i]))
    /\ [][C26_UpgradeStep]_vars


----------------------------------------------------------------------------
(* Claims about the BridgeModal *)

\* C27: the selected game is always a live one, and onBridge is called only
\* with a character and a selected game that is live; 'magic-realms', which
\* is not live, is never selected and never bridged to.
C27_BridgeOnlyToLiveGame ==
    /\ selectedGame # <<>> => Game(selectedGame[1]).isLive
    /\ indexOp.name = "bridge" =>
          /\ indexOp.arg.character # <<>>
          /\ indexOp.arg.game # <<>>
          /\ Game(indexOp.arg.game[1]).isLive

\* after a bridge to 'guild-wars' the modal was opened again and the card of
\* the game that is not live was clicked
C27_Witness ==
    /\ indexOp = [name |-> "select", arg |-> "magic-realms"]
    /\ selectedGame = <<"guild-wars">>
    /\ bridgeModal.isOpen
    /\ transactionModal.transaction # <<>>
    /\ Shown.type = "bridge"
    /\ Shown.details.text = Game("guild-wars").name


----------------------------------------------------------------------------
(* Leaderboard (src/unnamed/part_001): generateLeaderboard runs in the mount
   effect and in the effect of a changed timeframe, with the currentPlayer
   prop of that render *)

\* a click on a timeframe button; the effect has the dependency [timeframe]
SetTimeframe ==
    \E t \in Timeframes :
        /\ timeframe' = t
        /\ IF t # timeframe
           THEN /\ leaderboard' = GenerateLeaderboard(boardPlayer)
                /\ generatedFor' = boardPlayer
           ELSE UNCHANGED <<leaderboard, generatedFor>>
        /\ UNCHANGED <<boardPlayer, arenaVars, now, indexVars>>

\* Index renders the Leaderboard with another currentPlayer prop; no effect
\* of the Leaderboard depends on it
CurrentPlayerChanges ==
    /\ boardPlayer' \in BoardPlayers \ {boardPlayer}
    /\ UNCHANGED <<leaderboard, timeframe, generatedFor, arenaVars, now, indexVars>>

InitLeaderboard ==
    /\ ArenaMounted(CHOOSE draws \in SpawnLayouts : TRUE)
    /\ \E d \in StarterDraws : IndexMounted(d)
    /\ \E cp \in BoardPlayers : BoardMounted(cp)

NextLeaderboard == SetTimeframe \/ CurrentPlayerChanges

SpecLeaderboard == InitLeaderboard /\ [][NextLeaderboard]_vars

\* the positions of the current player's entry in the leaderboard
PlayerPositions == { i \in 1..Len(leaderboard) : leaderboard[i].id = "current-player" }

\* the entries of the leaderboard whose score is above s
HigherThan(s) == { i \in 1..Len(leaderboard) : leaderboard[i].score > s }

\* C28: the leaderboard generateLeaderboard set is ordered by non-increasing
\* score, the entry at position i has rank i, the unverified entry
\* 'current-player' is there exactly if a current player with a score above 0
\* was given, and its rank is 1 plus the number of entries with a strictly
\* higher score.
C28_LeaderboardRanks ==
    /\ \A i \in 1..Len(leaderboard) - 1 : leaderboard[i].score >= leaderboard[i + 1].score
    /\ \A i \in 1..Len(leaderboard) : leaderboard[i].rank = i
    /\ PlayerPositions # {} <=> HasScore(generatedFor)
    /\ \A i \in PlayerPositions :
          /\ ~leaderboard[i].verified
          /\ leaderboard[i].rank = 1 + Cardinality(HigherThan(leaderboard[i].score))


----------------------------------------------------------------------------
(* The round under a fair timer: a timeout that stays armed fires.  The
   browser runs a timeout once its delay has passed, whatever else is
   queued; mouse moves and frames leave gameState and timeLeft alone, so they
   do not re-arm the timeout. *)

SpecFairTimer == Init /\ [][Next]_vars /\ WF_vars(TimerFire)

\* C29: with a fair timer every round that is playing ends, however mouse
\* moves and frames interleave with the timeouts (startGame is offered only
\* outside a playing round).
C29_PlayingRoundEnds == (gameState = "playing") ~> (gameState = "ended")

\* a round ended by its last timeout after the player moved and scored
C29_Witness ==
    /\ gameState = "ended"
    /\ lastOp = "timeout"
    /\ timeLeft = 0
    /\ endCalls = 1
    /\ Score > 0
    /\ currentPlayer.x # InitialX

====
